---- MODULE Spec2Model ----
(***************************************************************************)
(* State-machine model of evias/nem2pay's PaymentsProtocol                 *)
(* (core/payments-protocol.js) and of the decoder helpers it calls:        *)
(*   - the bot status-update forwarder (startPaymentChannel handler,       *)
(*     storeInvoiceStatusUpdate, processPaymentChannelSuccess);            *)
(*   - the reconciliation sweep (fetchInvoicesRealHistory,                 *)
(*     saveIncomingPaymentsHistory).                                       *)
(* Asynchronous continuations (store findOne / save callbacks, gateway     *)
(* promise resolution) are separate actions; every synchronous stretch of  *)
(* JavaScript is one atomic action, as on Node's single-threaded loop.     *)
(***************************************************************************)
EXTENDS Integers, Sequences, FiniteSets, TLC

\* ------------------------------------------------------------------ bounds
MaxDeliveries == 2
MaxSweeps == 2
MaxNewTx == 1
MaxRequests == 2

\* the gateway's page size, hard-coded in fetchInvoicesRealHistory
PageSize == 25

\* ------------------------------------------------------------ JS values
\* Tagged JavaScript values, used where the code's control flow depends on
\* the run-time type of a value (arguments of fetchInvoicesRealHistory, the
\* return value of saveIncomingPaymentsHistory).
JSNull == [k |-> "null", v |-> 0]
JSFalse == [k |-> "false", v |-> 0]
JSUndefined == [k |-> "undefined", v |-> 0]
JSFunction == [k |-> "function", v |-> 0]
JSNumber(n) == [k |-> "number", v |-> n]
JSArray(s) == [k |-> "array", v |-> s]

\* ------------------------------------------------------------- invoices
\* Invoice numbers as stored (prefix + counter); the payer and recipient of
\* each; every invoice requests 1,000,000 micro-XEM.
NumbersSeq == <<"inv1", "INV2">>
Numbers == {NumbersSeq[i] : i \in 1..Len(NumbersSeq)}
Recipients == {"R1", "R2"}
PayerOf == [n \in Numbers |-> IF n = "inv1" THEN "P1" ELSE "P2"]
RecipientOf == [n \in Numbers |-> IF n = "inv1" THEN "R1" ELSE "R2"]
InvoiceAmount == [n \in Numbers |-> 1000000]

\* String.prototype.toUpperCase over the strings of the model
toUpperCase(s) ==
    CASE s = "inv1" -> "INV1"
      [] s = "inv2" -> "INV2"
      [] s = "xyz" -> "XYZ"
      [] OTHER -> s

\* A freshly created invoice document (app.js, /api/v1/invoices/create)
NewInvoice(n) ==
    [number |-> n, payerXEM |-> PayerOf[n], recipientXEM |-> RecipientOf[n],
     amount |-> InvoiceAmount[n], amountPaid |-> 0, amountUnconfirmed |-> 0,
     status |-> "not_paid", isPaid |-> FALSE, paidAt |-> 0,
     socketIds |-> <<>>, dirty |-> FALSE]

\* NEMPaymentChannel.getTotalIncoming
getTotalIncoming(invoice) == invoice.amountPaid + invoice.amountUnconfirmed

\* ---------------------------------------------------------- bot payloads
\* A parsed status update {status, message?, sender?, amountPaid?,
\* amountUnconfirmed?}.  "" stands for an absent or empty string and 0 for an
\* absent or zero amount: the code tests both with one truthiness check.
BotStatuses == {"unconfirmed", "paid_partly", "paid", "overpaid"}
BotAmounts == {0, 400000, 1000000, 1200000}
BotKeys == {<<"inv1", "">>, <<"", "P2">>, <<"xyz", "P1">>, <<"", "">>,
            <<"xyz", "PX">>, <<"", "PX">>}
MkData(st, key, amt) ==
    [status |-> st, message |-> key[1], sender |-> key[2],
     amountPaid |-> IF st = "unconfirmed" THEN 0 ELSE amt,
     amountUnconfirmed |-> IF st = "unconfirmed" THEN amt ELSE 0]
BotData == {MkData(st, key, amt) : st \in BotStatuses, key \in BotKeys, amt \in BotAmounts}

\* A raw payload is the JSON text of a status update; `ws` distinguishes two
\* byte-different serialisations of the same object.
MkRaw(st, key, amt, w) == [json |-> MkData(st, key, amt), ws |-> w]
RawPayloads == {[json |-> d, ws |-> w] : d \in BotData, w \in {0, 1}}
\* The payloads the bot sends in SpecBot, and in Spec
RawsBot ==
    {MkRaw("paid", <<"inv1", "">>, 1000000, 0),
     MkRaw("paid", <<"inv1", "">>, 1000000, 1),
     MkRaw("unconfirmed", <<"inv1", "">>, 400000, 0),
     MkRaw("overpaid", <<"inv1", "">>, 1200000, 0)}
\* The payloads the bot sends in SpecBotKeys: two that name no stored
\* invoice (by message and sender, by sender alone) and one that does
RawsKeys ==
    {MkRaw("paid", <<"xyz", "PX">>, 1000000, 0),
     MkRaw("paid", <<"", "PX">>, 1000000, 0),
     MkRaw("paid", <<"inv1", "">>, 1000000, 0)}
\* The payloads the bot sends in SpecExpired: the channel of inv1 has
\* expired, and a payment for inv1 is reported after that
RawsExpired ==
    {MkRaw("expired", <<"inv1", "">>, 0, 0),
     MkRaw("paid", <<"inv1", "">>, 1000000, 0)}
\* The payloads the bot sends in SpecBotEmpty: neither carries a message
\* or a sender
RawsEmpty ==
    {MkRaw("paid", <<"", "">>, 1000000, 0),
     MkRaw("unconfirmed", <<"", "">>, 400000, 0)}
RawsSmall ==
    {MkRaw("paid", <<"inv1", "">>, 1000000, 0),
     MkRaw("paid_partly", <<"inv1", "">>, 400000, 0)}

\* JSON.parse(rawdata)
JSONParse(raw) == raw.json

\* CryptoJS.MD5(CryptoJS.lib.WordArray.create(payload)).toString(): a
\* function of the payload's bytes, taken to be collision-free on RawPayloads.
Checksum(raw) == <<"md5", raw.json, raw.ws>>

ClientIds == {"c1", "c2"}

VARIABLES
    db,                      \* the invoice store: number -> persisted document
    now,                     \* the wall clock (new Date().valueOf())
    channelSockets,          \* bot channels opened: <<[number, clientId]>>
    botChannelSockets_,      \* registry: number -> <<[socket, clientId]>>
    incomingStatusUpdates_,  \* byChecksum: checksum -> parsed data
    emitted,                 \* events sent on the notification channel
    tasks,                   \* storeInvoiceStatusUpdate runs and their position
    errors,                  \* exceptions thrown and errors logged
    delivered,               \* raw payloads the bot delivered, in order
    feed,                    \* the gateway's incoming transactions per recipient, newest first
    paymentTransactionHistory_,  \* [byInvoice, byHash]
    sweeps,                  \* fetchInvoicesRealHistory calls and their position
    decoded,                 \* a call of a decoder helper: arguments and result
    requests                 \* GET /api/v1/invoices/history requests and their position

vars == <<db, now, channelSockets, botChannelSockets_, incomingStatusUpdates_, emitted,
          tasks, errors, delivered, feed, paymentTransactionHistory_, sweeps, decoded,
          requests>>

botVars == <<db, now, channelSockets, botChannelSockets_, incomingStatusUpdates_, emitted,
             tasks, errors, delivered>>
sweepVars == <<feed, paymentTransactionHistory_, sweeps, decoded, requests>>

\* ------------------------------------------------------- object helpers
\* A JavaScript object used as a map: hasOwnProperty, and assignment of a key
EmptyMap == [x \in {} |-> 0]
hasOwnProperty(obj, key) == key \in DOMAIN obj
Put(obj, key, val) == [x \in (DOMAIN obj) \cup {key} |-> IF x = key THEN val ELSE obj[x]]

\* ===================================================================
\* Status Update Deduplicator & Forwarder
\* ===================================================================

\* startPaymentChannel(invoice, clientSocketId, callback): opens a socket to
\* the bot, registers the nembot_payment_status_update handler (closing over
\* clientSocketId), appends the socket to invoice.socketIds and to the
\* registry botChannelSockets_[invoice.number], and saves the invoice.
startPaymentChannel(n, clientSocketId) ==
    LET channelSocket == Len(channelSockets) + 1
        entry == [socket |-> channelSocket, clientId |-> clientSocketId]
        registry == IF hasOwnProperty(botChannelSockets_, n)
                    THEN botChannelSockets_
                    ELSE Put(botChannelSockets_, n, <<>>)
    IN  /\ channelSockets' = Append(channelSockets, [number |-> n, clientId |-> clientSocketId])
        /\ botChannelSockets_' = [registry EXCEPT ![n] = Append(@, entry)]
        /\ db' = [db EXCEPT ![n].socketIds = Append(@, channelSocket)]
        /\ UNCHANGED <<now, incomingStatusUpdates_, emitted, tasks, errors, delivered>>
        /\ UNCHANGED sweepVars

\* storeInvoiceStatusUpdate, lines 485-493: the query built from the payload
InvoiceQuery(data) ==
    IF data.message # "" THEN [field |-> "number", value |-> data.message]
    ELSE IF data.sender # "" THEN [field |-> "payerXEM", value |-> data.sender]
    ELSE [field |-> "", value |-> ""]

\* NEMPaymentChannel.findOne(query): the first stored document matching the
\* field equality (every document matches the empty query); "" when none.
QueryMatches(query, doc) ==
    CASE query.field = "number" -> doc.number = query.value
      [] query.field = "payerXEM" -> doc.payerXEM = query.value
      [] OTHER -> TRUE
\* A lookup that answers with a document whatever the query (the behaviour
\* C13 rules out)
findOne_anyDocument(query, store) == NumbersSeq[1]

findOne(query, store) ==
    LET hits == {i \in 1..Len(NumbersSeq) : QueryMatches(query, store[NumbersSeq[i]])}
    IN  IF hits = {} THEN ""
        ELSE NumbersSeq[CHOOSE i \in hits : \A j \in hits : i <= j]

\* A variant of the assignments below in which an unconfirmed amount is
\* booked as paid (the behaviour C6 rules out)
ApplyStatusUpdate_booksUnconfirmed(invoice, data, time) ==
    LET a == [invoice EXCEPT !.status = data.status]
        b == IF data.status = "unconfirmed"
             THEN [a EXCEPT !.amountUnconfirmed = data.amountUnconfirmed,
                            !.amountPaid = @ + data.amountUnconfirmed]
             ELSE IF data.amountPaid # 0
                  THEN [a EXCEPT !.amountPaid = data.amountPaid]
                  ELSE a
    IN  IF data.status = "paid"
        THEN [b EXCEPT !.isPaid = TRUE, !.paidAt = time]
        ELSE b

\* A variant that also takes the payer address from the payload (the
\* behaviour C32 rules out)
ApplyStatusUpdate_takesSender(invoice, data, time) ==
    [invoice EXCEPT !.status = data.status, !.payerXEM = data.sender]

\* storeInvoiceStatusUpdate, lines 504-514: the fields assigned on the
\* in-memory invoice found
ApplyStatusUpdate(invoice, data, time) ==
    LET a == [invoice EXCEPT !.status = data.status]
        b == IF data.status = "unconfirmed"
             THEN [a EXCEPT !.amountUnconfirmed = data.amountUnconfirmed]
             ELSE IF data.amountPaid # 0
                  THEN [a EXCEPT !.amountPaid = data.amountPaid]
                  ELSE a
    IN  IF data.status = "paid"
        THEN [b EXCEPT !.isPaid = TRUE, !.paidAt = time]
        ELSE b

\* invoice.save(): the document paths assigned by ApplyStatusUpdate are
\* written to the stored document
SaveStatusUpdate(doc, invoice, data) ==
    LET a == [doc EXCEPT !.status = invoice.status]
        b == IF data.status = "unconfirmed"
             THEN [a EXCEPT !.amountUnconfirmed = invoice.amountUnconfirmed]
             ELSE IF data.amountPaid # 0
                  THEN [a EXCEPT !.amountPaid = invoice.amountPaid]
                  ELSE a
    IN  IF data.status = "paid"
        THEN [b EXCEPT !.isPaid = invoice.isPaid, !.paidAt = invoice.paidAt]
        ELSE b

\* `clientData` is a local of the status-update handler (line 445); it is not
\* in scope in processPaymentChannelSuccess, so evaluating the argument of
\* emit at line 554 throws a ReferenceError before anything is sent.
ClientDataInScope == FALSE

\* processPaymentChannelSuccess, lines 552-554: the loop over the registered
\* sockets; [emitted, thrown]
RECURSIVE EmitSuccessLoop(_, _, _, _)
EmitSuccessLoop(socketsForPayment, i, em, cause) ==
    IF i > Len(socketsForPayment) THEN [emitted |-> em, thrown |-> FALSE]
    ELSE IF ~ClientDataInScope THEN [emitted |-> em, thrown |-> TRUE]
    ELSE EmitSuccessLoop(socketsForPayment, i + 1,
            Append(em, [to |-> socketsForPayment[i].clientId,
                        event |-> "nem2pay_payment_success",
                        cause |-> cause]),
            cause)

processPaymentChannelSuccess(paymentChannel, em, cause) ==
    IF hasOwnProperty(botChannelSockets_, paymentChannel.number)
    THEN EmitSuccessLoop(botChannelSockets_[paymentChannel.number], 1, em, cause)
    ELSE [emitted |-> em, thrown |-> FALSE]

\* save callback, lines 522-526: does the update go on to the
\* success-notification path?
ReachesSuccessPath(invoice, data) ==
    /\ data.status = "paid" \/ data.status = "unconfirmed"
    /\ invoice.isPaid
    /\ ~(getTotalIncoming(invoice) < invoice.amount)

NoInvoice == [NewInvoice("inv1") EXCEPT !.number = ""]

\* A handler without the checksum guard (the behaviour C1 rules out)
AlreadyForwarded_never(checksum) == FALSE

\* line 432: was this checksum recorded already?
AlreadyForwarded(checksum) == hasOwnProperty(incomingStatusUpdates_, checksum)

\* A handler that forwards to the client of the first channel opened,
\* whichever channel received the payload (the behaviour C34 rules out)
OnPaymentStatusUpdate_toFirstClient(ch, rawdata) ==
    LET checksum == Checksum(rawdata)
        data == JSONParse(rawdata)
    IN  /\ ch \in 1..Len(channelSockets)
        /\ Len(delivered) < MaxDeliveries
        /\ delivered' = Append(delivered, [channel |-> ch, raw |-> rawdata])
        /\ now' = now + 1
        /\ IF AlreadyForwarded(checksum)
           THEN UNCHANGED <<incomingStatusUpdates_, emitted, tasks>>
           ELSE /\ incomingStatusUpdates_' = Put(incomingStatusUpdates_, checksum, data)
                /\ emitted' = Append(emitted, [to |-> channelSockets[1].clientId,
                                               event |-> "nem2pay_payment_status_update",
                                               cause |-> rawdata])
                /\ tasks' = Append(tasks, [raw |-> rawdata, data |-> data,
                                           pc |-> "findOne", invoice |-> NoInvoice])
        /\ UNCHANGED <<db, channelSockets, botChannelSockets_, errors>>
        /\ UNCHANGED sweepVars

\* nembot_payment_status_update handler, lines 424-454, on bot channel ch
\* (one atomic run up to the store lookup issued by storeInvoiceStatusUpdate)
OnPaymentStatusUpdate(ch, rawdata) ==
    LET checksum == Checksum(rawdata)
        data == JSONParse(rawdata)
        clientSocketId == channelSockets[ch].clientId
    IN  /\ ch \in 1..Len(channelSockets)
        /\ Len(delivered) < MaxDeliveries
        /\ delivered' = Append(delivered, [channel |-> ch, raw |-> rawdata])
        /\ now' = now + 1
        /\ IF AlreadyForwarded(checksum)
           THEN UNCHANGED <<incomingStatusUpdates_, emitted, tasks>>
           ELSE /\ incomingStatusUpdates_' = Put(incomingStatusUpdates_, checksum, data)
                /\ emitted' = Append(emitted, [to |-> clientSocketId,
                                               event |-> "nem2pay_payment_status_update",
                                               cause |-> rawdata])
                /\ tasks' = Append(tasks, [raw |-> rawdata, data |-> data,
                                           pc |-> "findOne", invoice |-> NoInvoice])
        /\ UNCHANGED <<db, channelSockets, botChannelSockets_, errors>>
        /\ UNCHANGED sweepVars

\* findOne callback, lines 498-516: not found -> dropped; found -> the
\* in-memory invoice is updated and invoice.save is issued
FindOneReturns(t) ==
    LET task == tasks[t]
        found == findOne(InvoiceQuery(task.data), db)
    IN  /\ t \in 1..Len(tasks)
        /\ task.pc = "findOne"
        /\ tasks' = [tasks EXCEPT ![t] =
                        IF found = "" THEN [task EXCEPT !.pc = "notFound"]
                        ELSE [task EXCEPT !.pc = "save",
                                          !.invoice = ApplyStatusUpdate(db[found], task.data, now)]]
        /\ UNCHANGED <<db, now, channelSockets, botChannelSockets_, incomingStatusUpdates_,
                       emitted, errors, delivered>>
        /\ UNCHANGED sweepVars

\* save callback without error, lines 516-532
SaveSucceeds(t) ==
    LET task == tasks[t]
        invoice == task.invoice
        out == processPaymentChannelSuccess(invoice, emitted, task.raw)
    IN  /\ t \in 1..Len(tasks)
        /\ task.pc = "save"
        /\ db' = [db EXCEPT ![invoice.number] = SaveStatusUpdate(@, invoice, task.data)]
        /\ IF ReachesSuccessPath(invoice, task.data)
           THEN /\ tasks' = [tasks EXCEPT ![t].pc = "successPath"]
                /\ emitted' = out.emitted
                /\ errors' = IF out.thrown
                             THEN Append(errors, "ReferenceError: clientData is not defined")
                             ELSE errors
           ELSE /\ tasks' = [tasks EXCEPT ![t].pc = "saved"]
                /\ UNCHANGED <<emitted, errors>>
        /\ UNCHANGED <<now, channelSockets, botChannelSockets_, incomingStatusUpdates_, delivered>>
        /\ UNCHANGED sweepVars

\* A save that reports an error after having written the document (the
\* behaviour C11 rules out)
SaveFails_persists(t) ==
    /\ t \in 1..Len(tasks)
    /\ tasks[t].pc = "save"
    /\ tasks' = [tasks EXCEPT ![t].pc = "saveError"]
    /\ db' = [db EXCEPT ![tasks[t].invoice.number] =
                  SaveStatusUpdate(@, tasks[t].invoice, tasks[t].data)]
    /\ errors' = Append(errors, "Invoice status update error")
    /\ UNCHANGED <<now, channelSockets, botChannelSockets_, incomingStatusUpdates_,
                   emitted, delivered>>
    /\ UNCHANGED sweepVars

\* save callback with an error, lines 517-520: logged, nothing else
SaveFails(t) ==
    /\ t \in 1..Len(tasks)
    /\ tasks[t].pc = "save"
    /\ tasks' = [tasks EXCEPT ![t].pc = "saveError"]
    /\ errors' = Append(errors, "Invoice status update error")
    /\ UNCHANGED <<db, now, channelSockets, botChannelSockets_, incomingStatusUpdates_,
                   emitted, delivered>>
    /\ UNCHANGED sweepVars

\* ===================================================================
\* Transaction decoder (the helpers the reconciliation engine calls)
\* ===================================================================

\* A transaction-with-metadata record: meta.id, meta.hash, and the content's
\* type, amount, message.payload (hex, "" when the message is absent),
\* mosaics, recipient and, for a multisig envelope, otherTrans with the same
\* four fields.  mosaics and otherTrans may be undefined.
\*   hash = <<"hash", id>>    meta.hash.data is a hash
\*   hash = HashDataMissing   meta.hash is an object without data
\*   hash = HashMissing       meta has no hash
HashDataMissing == <<"undefined", 0>>
HashMissing == <<"absent", 0>>
JSString(str) == [k |-> "string", v |-> str]
JSObject(obj) == [k |-> "object", v |-> obj]
JSTypeError == [k |-> "TypeError", v |-> 0]
NoMosaics == JSUndefined
NoTrans == JSUndefined
Inner(amount, payload, mosaics, recipient) ==
    JSObject([amount |-> amount, payload |-> payload, mosaics |-> mosaics,
              recipient |-> recipient])
Transfer(id, payload, amount) ==
    [id |-> id, hash |-> <<"hash", id>>, type |-> "transfer",
     amount |-> amount, payload |-> payload, mosaics |-> NoMosaics,
     recipient |-> "R1", signer |-> "PX", otherTrans |-> NoTrans]
Multisig(id, payload, amount) ==
    [id |-> id, hash |-> <<"hash", id>>, type |-> "multisigTransaction",
     amount |-> 0, payload |-> "", mosaics |-> NoMosaics, recipient |-> "",
     signer |-> "PX", otherTrans |-> Inner(amount, payload, NoMosaics, "R1")]
OtherType(id, payload, amount) ==
    [id |-> id, hash |-> <<"hash", id>>, type |-> "importanceTransfer",
     amount |-> amount, payload |-> payload, mosaics |-> NoMosaics,
     recipient |-> "R1", signer |-> "PX", otherTrans |-> NoTrans]

\* A record as sent from the account of an address (the signer of the
\* gateway's record, named by the address of its account)
WithSigner(trx, address) == [trx EXCEPT !.signer = address]

\* nem.utils.convert.hex2a over the payloads of the model
hex2a(payload) ==
    CASE payload = "696e7631" -> "inv1"
      [] payload = "494e5631" -> "INV1"
      [] payload = "494e5632" -> "INV2"
      [] payload = "78797a" -> "xyz"
      [] payload = "5532467364" -> "U2Fsd"
      [] OTHER -> ""

getTransactionId(trx) == trx.id

\* getTransactionHash(trx), inner = false: meta.hash.data; reading data of an
\* absent meta.hash throws a TypeError, for which HashMissing stands
getTransactionHash(trx) == trx.hash

\* The content object the two readers below work on: content.otherTrans for
\* a multisig envelope, else the content itself
RealContent(trx) ==
    IF trx.type = "multisigTransaction" THEN trx.otherTrans
    ELSE JSObject([amount |-> trx.amount, payload |-> trx.payload,
                   mosaics |-> trx.mosaics, recipient |-> trx.recipient])

\* CryptoJS.AES.decrypt(plain, secretKey): a WordArray in every case; "U2Fsd"
\* is the one text of the model that was encrypted with the key (its clear
\* text is "inv1"); for any other text the bytes are whatever the cipher
\* yields (outcome), possibly none.
DecryptOutcomes == {"garbage", "empty"}
Decryptable(plain) == plain = "U2Fsd"
AESdecrypt(plain, outcome) ==
    [k |-> "WordArray", v |-> IF Decryptable(plain) THEN "inv1" ELSE outcome]

\* A reader that takes the message of a multisig envelope from the envelope
\* itself (the behaviour C16 rules out)
getTransactionMessage_outer(trx, doDecrypt, outcome) ==
    IF trx.payload = "" THEN JSString("")
    ELSE IF doDecrypt THEN AESdecrypt(hex2a(trx.payload), outcome)
    ELSE JSString(hex2a(trx.payload))

\* getTransactionMessage(trx, doDecrypt)
getTransactionMessage(trx, doDecrypt, outcome) ==
    LET trxRealData == RealContent(trx)
    IN  IF trxRealData.k = "undefined" THEN JSTypeError
        ELSE IF trxRealData.v.payload = "" THEN JSString("")
        ELSE LET plain == hex2a(trxRealData.v.payload)
             IN  IF doDecrypt THEN AESdecrypt(plain, outcome)
                 ELSE JSString(plain)

\* Mosaic slugs "namespace:name" and the two String.replace calls of lines
\* 222-223 on them
Slugs == {"nem:xem", "ns:heart", "xem"}
LookupNS(mosaicSlug) ==
    CASE mosaicSlug = "nem:xem" -> "nem"
      [] mosaicSlug = "ns:heart" -> "ns"
      [] OTHER -> mosaicSlug
LookupMos(mosaicSlug) ==
    CASE mosaicSlug = "nem:xem" -> "xem"
      [] mosaicSlug = "ns:heart" -> "heart"
      [] OTHER -> mosaicSlug
Pow10(d) == 10^d
Divisibilities == {0, 3, 6}

\* Number.prototype.toFixed(divisibility) of micro / 10^divisibility: the
\* decimal string <<integer part, fraction digits, number of decimals>>
ToFixed(micro, divisibility) ==
    JSString(<<micro \div Pow10(divisibility), micro % Pow10(divisibility), divisibility>>)

\* the loop of lines 229-238: the first mosaic of the list that is the
\* lookup mosaic decides
RECURSIVE AmountOfMosaics(_, _, _, _, _)
AmountOfMosaics(mosaics, i, amount, mosaicSlug, divisibility) ==
    IF i > Len(mosaics) THEN JSNumber(0)
    ELSE IF /\ mosaics[i].namespaceId = LookupNS(mosaicSlug)
            /\ mosaics[i].name = LookupMos(mosaicSlug)
         THEN ToFixed(amount * mosaics[i].quantity, divisibility)
         ELSE AmountOfMosaics(mosaics, i + 1, amount, mosaicSlug, divisibility)

\* A reader that returns the amount field whatever the slug (the behaviour
\* C17 rules out)
getTransactionAmount_anySlug(trx, mosaicSlug, divisibility) ==
    LET realContent == RealContent(trx)
    IN  IF realContent.k = "undefined" THEN JSTypeError
        ELSE JSNumber(realContent.v.amount)

\* getTransactionAmount(trx, mosaicSlug, divisibility)
getTransactionAmount(trx, mosaicSlug, divisibility) ==
    LET realContent == RealContent(trx)
    IN  IF realContent.k = "undefined" THEN JSTypeError
        ELSE LET mosaics == realContent.v.mosaics
                 isMosaic == mosaics.k = "array" /\ Len(mosaics.v) > 0
             IN  IF isMosaic
                 THEN AmountOfMosaics(mosaics.v, 1, realContent.v.amount,
                                      mosaicSlug, divisibility)
                 ELSE IF mosaicSlug # "nem:xem" THEN JSNumber(0)
                 ELSE JSNumber(realContent.v.amount)

\* mosaic.mosaicId.namespaceId + ":" + mosaic.mosaicId.name (line 304)
SlugOf(mosaic) ==
    CASE mosaic.namespaceId = "nem" /\ mosaic.name = "xem" -> "nem:xem"
      [] mosaic.namespaceId = "ns" /\ mosaic.name = "heart" -> "ns:heart"
      [] OTHER -> "other:other"

\* parseInt(trxAmount / Math.pow(10, divisibility)), line 316: the integer
\* part of the quotient (for the amounts and divisibilities of the model the
\* quotient is 0 or at least 10^-6, which parseInt reads in plain notation)
ParseIntQuotient(trxAmount, divisibility) == trxAmount \div Pow10(divisibility)

NotFound == JSObject([totalMosaic |-> 0, recipient |-> JSFalse])

\* extractMosaicFromTransactionData_, lines 302-324: the loop over the mosaics
RECURSIVE ExtractLoop(_, _, _, _, _, _)
ExtractLoop(trxMosaics, j, recipient, trxAmount, slugToExtract, divisibility) ==
    IF j > Len(trxMosaics) THEN NotFound
    ELSE IF slugToExtract # SlugOf(trxMosaics[j])
    THEN ExtractLoop(trxMosaics, j + 1, recipient, trxAmount, slugToExtract, divisibility)
    ELSE LET mosAmount == trxMosaics[j].quantity
             mosMultiply == IF trxAmount > 0
                            THEN ParseIntQuotient(trxAmount, divisibility)
                            ELSE 1
         IN  JSObject([totalMosaic |-> mosMultiply * mosAmount,
                       recipient |-> JSString(recipient)])

\* extractMosaicFromTransactionData_(trxContent, slugToExtract, divisibility);
\* trxContent is null or an object
extractMosaicFromTransactionData_(trxContent, slugToExtract, divisibility) ==
    IF trxContent.k = "null" \/ slugToExtract = "" THEN NotFound
    ELSE LET content == trxContent.v
         IN  IF content.type = "multisigTransaction"
             THEN IF content.otherTrans.k = "undefined" THEN JSFalse
                  ELSE IF content.otherTrans.v.mosaics.k = "undefined" THEN JSFalse
                  ELSE ExtractLoop(content.otherTrans.v.mosaics.v, 1,
                                   content.otherTrans.v.recipient,
                                   content.otherTrans.v.amount,
                                   slugToExtract, divisibility)
             ELSE IF content.mosaics.k = "undefined" \/ Len(content.mosaics.v) = 0
                  THEN JSFalse
                  ELSE ExtractLoop(content.mosaics.v, 1, content.recipient,
                                   content.amount, slugToExtract, divisibility)

\* -------------------------------------------------- decoder call records
\* The records the decoder helpers are applied to: plain transfers and
\* multisig envelopes whose own fields differ from those of the inner
\* transaction, with and without mosaic lists, message and otherTrans.
Heart5 == [namespaceId |-> "ns", name |-> "heart", quantity |-> 5]
Xem3 == [namespaceId |-> "nem", name |-> "xem", quantity |-> 3]
Xem7 == [namespaceId |-> "nem", name |-> "xem", quantity |-> 7]
MosaicLists == {NoMosaics, JSArray(<<>>), JSArray(<<Heart5>>), JSArray(<<Xem3, Heart5>>)}
DecoderAmounts == {0, 500000, 2000000}
DecoderPayloads == {"", "494e5631", "5532467364"}
Inners ==
    {NoTrans} \cup {Inner(a, p, m, "R2") :
                      a \in DecoderAmounts, p \in DecoderPayloads, m \in MosaicLists}
DecoderRecords ==
    {[id |-> 1, hash |-> <<"hash", 1>>, type |-> "transfer", amount |-> a,
      payload |-> p, mosaics |-> m, recipient |-> "R1", signer |-> "PX", otherTrans |-> o] :
        a \in DecoderAmounts, p \in DecoderPayloads, m \in MosaicLists,
        o \in {NoTrans, Inner(2000000, "494e5632", JSArray(<<Heart5>>), "R2")}}
    \cup
    {[id |-> 1, hash |-> <<"hash", 1>>, type |-> "multisigTransaction", amount |-> a,
      payload |-> p, mosaics |-> m, recipient |-> "R1", signer |-> "PX", otherTrans |-> o] :
        a \in {0, 1000000}, p \in {"", "696e7631"},
        m \in {NoMosaics, JSArray(<<Xem7>>)}, o \in Inners}

JSPending == [k |-> "pending", v |-> 0]
NoCall == [fn |-> "none", trx |-> JSNull, slug |-> "", divisibility |-> 0,
           doDecrypt |-> FALSE, outcome |-> "garbage", result |-> JSPending]
DecoderCalls ==
    {[fn |-> "getTransactionMessage", trx |-> JSObject(r), slug |-> "",
      divisibility |-> 0, doDecrypt |-> d, outcome |-> o, result |-> JSPending] :
        r \in DecoderRecords, d \in BOOLEAN, o \in DecryptOutcomes}
    \cup
    {[fn |-> "getTransactionAmount", trx |-> JSObject(r), slug |-> g,
      divisibility |-> d, doDecrypt |-> FALSE, outcome |-> "garbage",
      result |-> JSPending] :
        r \in DecoderRecords, g \in Slugs, d \in Divisibilities}
    \cup
    {[fn |-> "extractMosaicFromTransactionData_", trx |-> c, slug |-> g,
      divisibility |-> d, doDecrypt |-> FALSE, outcome |-> "garbage",
      result |-> JSPending] :
        c \in {JSNull} \cup {JSObject(r) : r \in DecoderRecords},
        g \in Slugs \cup {""}, d \in Divisibilities}

\* A caller applies one of the helpers to its arguments
CallGetTransactionMessage ==
    /\ decoded.fn = "getTransactionMessage"
    /\ decoded.result = JSPending
    /\ decoded' = [decoded EXCEPT !.result =
          getTransactionMessage(decoded.trx.v, decoded.doDecrypt, decoded.outcome)]
    /\ UNCHANGED <<feed, paymentTransactionHistory_, sweeps, requests>>
    /\ UNCHANGED botVars
CallGetTransactionAmount ==
    /\ decoded.fn = "getTransactionAmount"
    /\ decoded.result = JSPending
    /\ decoded' = [decoded EXCEPT !.result =
          getTransactionAmount(decoded.trx.v, decoded.slug, decoded.divisibility)]
    /\ UNCHANGED <<feed, paymentTransactionHistory_, sweeps, requests>>
    /\ UNCHANGED botVars
CallExtractMosaic ==
    /\ decoded.fn = "extractMosaicFromTransactionData_"
    /\ decoded.result = JSPending
    /\ decoded' = [decoded EXCEPT !.result =
          extractMosaicFromTransactionData_(decoded.trx, decoded.slug,
                                            decoded.divisibility)]
    /\ UNCHANGED <<feed, paymentTransactionHistory_, sweeps, requests>>
    /\ UNCHANGED botVars

\* ===================================================================
\* Payment Reconciliation Engine
\* ===================================================================

\* A scan without the seen-hash guard (the behaviour C3 rules out)
SeenBefore_never(hist, lastTrxHash) == FALSE

\* line 638: is the hash marked in paymentTransactionHistory_.byHash?
SeenBefore(hist, lastTrxHash) == lastTrxHash \in hist.byHash

\* saveIncomingPaymentsHistory, lines 627-664: the scan of one page from
\* record i on.  Result: the history and the value the function is about to
\* return: false at a seen hash (line 640, the function returns at once), or
\* the id of the last record read (null for an empty page).  A TypeError
\* thrown by one of the readers of lines 634-636 leaves the function at once
\* (ret = JSTypeError) with what the records before it changed.  The amounts
\* read are numbers: no record of a feed carries a mosaic list.
RECURSIVE ScanPage(_, _, _, _)
ScanPage(transactions, i, hist, lastTrxRead) ==
    IF i > Len(transactions) THEN [hist |-> hist, ret |-> lastTrxRead, finished |-> TRUE]
    ELSE
      LET trx == transactions[i]
          lastTrxHash == getTransactionHash(trx)
          message == getTransactionMessage(trx, FALSE, "garbage")
          amount == getTransactionAmount(trx, "nem:xem", 6)
          lastMsgRead == message.v
          lastAmtRead == amount.v
          normNumber == toUpperCase(lastMsgRead)
          marked == [hist EXCEPT !.byHash = @ \cup {lastTrxHash}]
      IN  IF lastTrxHash = HashMissing \/ message.k = "TypeError" \/ amount.k = "TypeError"
          THEN [hist |-> hist, ret |-> JSTypeError, finished |-> FALSE]
          ELSE IF SeenBefore(hist, lastTrxHash)
          THEN [hist |-> hist, ret |-> JSFalse, finished |-> FALSE]
          ELSE IF trx.type # "transfer" /\ trx.type # "multisigTransaction"
          THEN ScanPage(transactions, i + 1, marked, JSNumber(getTransactionId(trx)))
          ELSE IF ~hasOwnProperty(hist.byInvoice, normNumber)
          THEN ScanPage(transactions, i + 1, marked, JSNumber(getTransactionId(trx)))
          ELSE ScanPage(transactions, i + 1,
                 [marked EXCEPT !.byInvoice[normNumber] =
                     [@ EXCEPT !.transactions = Append(@, trx),
                               !.totalPaid = @ + lastAmtRead]],
                 JSNumber(getTransactionId(trx)))

\* A write-back that also stamps the payment date (the behaviour C28 rules out)
WriteBackEntry_stampsPaidAt(currentEntry) ==
    [currentEntry EXCEPT !.invoice.amountPaid = currentEntry.totalPaid,
                         !.invoice.paidAt = now,
                         !.invoice.dirty = TRUE]

\* saveIncomingPaymentsHistory, lines 674-683: the write-back on one entry
WriteBackEntry(currentEntry) ==
    LET currentInvoice == currentEntry.invoice
        a == [currentInvoice EXCEPT !.amountPaid = currentEntry.totalPaid]
        b == IF a.amountPaid >= a.amount
             THEN [a EXCEPT !.isPaid = TRUE,
                            !.status = IF a.amountPaid > a.amount THEN "overpaid" ELSE "paid"]
             ELSE a
    IN  [currentEntry EXCEPT !.invoice = [b EXCEPT !.dirty = TRUE]]

\* saveIncomingPaymentsHistory, lines 666-687: the write-back loop over every
\* entry of paymentTransactionHistory_.byInvoice
WriteBack(byInvoice) == [num \in DOMAIN byInvoice |-> WriteBackEntry(byInvoice[num])]

\* saveIncomingPaymentsHistory(transactions): [hist, ret]
saveIncomingPaymentsHistory(transactions, hist) ==
    LET scan == ScanPage(transactions, 1, hist, JSNull)
    IN  IF scan.finished
        THEN [hist |-> [scan.hist EXCEPT !.byInvoice = WriteBack(@)], ret |-> scan.ret]
        ELSE [hist |-> scan.hist, ret |-> scan.ret]

\* fetchInvoicesRealHistory, lines 574-585: accumulators are created for the
\* invoices that have none yet (keyed by upper-case number)
RECURSIVE InitAccumulators(_, _, _)
InitAccumulators(invoices, i, byInvoice) ==
    IF i > Len(invoices) THEN byInvoice
    ELSE LET num == toUpperCase(invoices[i].number)
         IN  InitAccumulators(invoices, i + 1,
                IF hasOwnProperty(byInvoice, num) THEN byInvoice
                ELSE Put(byInvoice, num,
                         [transactions |-> <<>>, totalPaid |-> 0, invoice |-> invoices[i]]))

\* A call that goes on to the gateway whatever it is given (the behaviour C24
\* rules out)
FetchEntry_requestsAnyway(recipient, invoices, lastTrxRead, callback) == "request"

\* fetchInvoicesRealHistory(recipient, invoices, lastTrxRead, callback), lines
\* 571-572 and 590: what a call does with the arguments it is given.
\*   `invoices.length` throws on null/undefined, is undefined on a number;
\*   `callback(false)` throws when callback is not a function.
FetchEntry(recipient, invoices, lastTrxRead, callback) ==
    IF invoices.k \in {"null", "undefined"} THEN "TypeError"
    ELSE IF invoices.k # "array" \/ Len(invoices.v) = 0
    THEN IF callback.k = "function" THEN "callbackFalse" ELSE "TypeError"
    ELSE "request"

\* The recursive call of line 606, as written:
\*   self.fetchInvoicesRealHistory(invoices, lastTrxRead, callback)
RecursiveCall(recipient, invoices, lastTrxRead, callback) ==
    FetchEntry(invoices, lastTrxRead, callback, JSUndefined)

\* account.transactions.incoming(endpoint, recipient, null, id): up to
\* PageSize transactions of the recipient older than the id cursor, newest first
OlderThan(txs, cursor) ==
    IF cursor.k = "number" THEN SelectSeq(txs, LAMBDA t : t.id < cursor.v) ELSE txs
Page(txs, cursor) ==
    LET older == OlderThan(txs, cursor)
    IN  IF Len(older) <= PageSize THEN older ELSE SubSeq(older, 1, PageSize)

\* Number of sweeps whose promise chain has run (then or catch)
EndedSweeps == Cardinality({s \in 1..Len(sweeps) : sweeps[s].endOrder > 0})
\* Number of transactions the gateway knows
ChainLength == Len(feed["R1"]) + Len(feed["R2"])
\* The numbers of the invoices a sweep was called with
NumbersOf(sw) == [i \in 1..Len(sw.invoices) |-> sw.invoices[i].number]
\* Is the pending sweep s a re-run: the sweep that ended last was called for
\* the same recipient and invoices, its `then` handler ran, and the chain has
\* not grown since that sweep started?
IsRerun(s) ==
    \E s0 \in 1..Len(sweeps) :
        /\ s0 # s
        /\ sweeps[s0].endOrder = EndedSweeps
        /\ sweeps[s0].endOrder > 0
        /\ sweeps[s0].state \in {"delivered", "threw"}
        /\ sweeps[s0].recipient = sweeps[s].recipient
        /\ NumbersOf(sweeps[s0]) = NumbersOf(sweeps[s])
        /\ sweeps[s0].startedAt = ChainLength

\* A caller invokes fetchInvoicesRealHistory(recipient, invoices, null, callback)
\* with invoices it has just loaded from the store (lines 571-591).
StartSweep(recipient, numbers) ==
    LET invoices == [i \in 1..Len(numbers) |-> db[numbers[i]]]
        outcome == FetchEntry([k |-> "string", v |-> recipient], JSArray(invoices),
                              JSNull, JSFunction)
    IN  /\ Len(sweeps) < MaxSweeps
        /\ sweeps' = Append(sweeps,
              [recipient |-> recipient, invoices |-> invoices, lastTrxRead |-> JSNull,
               state |-> IF outcome = "request" THEN "requested" ELSE outcome,
               pages |-> 0, startedAt |-> ChainLength,
               endOrder |-> 0, rerun |-> FALSE])
        /\ paymentTransactionHistory_' =
              IF outcome = "request"
              THEN [paymentTransactionHistory_ EXCEPT
                        !.byInvoice = InitAccumulators(invoices, 1, @)]
              ELSE paymentTransactionHistory_
        /\ UNCHANGED <<feed, decoded, requests>>
        /\ UNCHANGED botVars

\* The gateway's promise resolves with a page: the `then` handler, lines
\* 592-614.  An exception thrown inside it (by the recursive call) rejects the
\* chain and lands in the catch handler, which logs it.
GatewayResponds(s) ==
    LET sw == sweeps[s]
        transactions == Page(feed[sw.recipient], sw.lastTrxRead)
        res == saveIncomingPaymentsHistory(transactions, paymentTransactionHistory_)
        lastTrxRead == res.ret
        recurse == lastTrxRead # JSFalse /\ Len(transactions) = PageSize
        nested == IF lastTrxRead.k = "TypeError" THEN "TypeError"
                  ELSE IF recurse
                  THEN RecursiveCall([k |-> "string", v |-> sw.recipient],
                                     JSArray(sw.invoices), lastTrxRead, JSFunction)
                  ELSE "none"
        state == CASE nested = "TypeError" -> "threw"
                   [] nested = "callbackFalse" -> "callbackFalse"
                   [] nested = "request" -> "requested"
                   [] OTHER -> "delivered"
    IN  /\ s \in 1..Len(sweeps)
        /\ sw.state = "requested"
        /\ paymentTransactionHistory_' = res.hist
        /\ sweeps' = [sweeps EXCEPT ![s] =
              [sw EXCEPT !.state = state,
                         !.lastTrxRead = lastTrxRead,
                         !.pages = @ + 1,
                         !.rerun = IsRerun(s),
                         !.endOrder = IF state = "requested" THEN 0 ELSE EndedSweeps + 1]]
        /\ errors' = IF lastTrxRead.k = "TypeError"
                     THEN Append(errors, "TypeError: cannot read property of undefined")
                     ELSE IF state = "threw"
                     THEN Append(errors, "TypeError: callback is not a function")
                     ELSE errors
        /\ UNCHANGED <<feed, decoded, requests>>
        /\ UNCHANGED <<db, now, channelSockets, botChannelSockets_, incomingStatusUpdates_,
                       emitted, tasks, delivered>>

\* The gateway's promise rejects: the catch handler, lines 615-617, logs it
GatewayFails(s) ==
    /\ s \in 1..Len(sweeps)
    /\ sweeps[s].state = "requested"
    /\ sweeps' = [sweeps EXCEPT ![s].state = "rejected", ![s].endOrder = EndedSweeps + 1]
    /\ errors' = Append(errors, "An error happened")
    /\ UNCHANGED <<feed, paymentTransactionHistory_, decoded, requests>>
    /\ UNCHANGED <<db, now, channelSockets, botChannelSockets_, incomingStatusUpdates_,
                   emitted, tasks, delivered>>

\* ------------------------------------------ GET /api/v1/invoices/history
\* app.js lines 450-471: the query parameters and the store query built from
\* them.  An empty string stands for an absent parameter.
HistoryPayers == {"", "P1", "P2", "PX"}
HistoryNumbers == {"", "inv1"}
HistoryStatuses == {"not_paid", "expired", "unconfirmed", "paid_partly", "paid"}
HistoryQueryMatches(payer, number, doc) ==
    /\ doc.payerXEM = payer
    /\ doc.status \in HistoryStatuses
    /\ number # "" => doc.number = number
\* NEMPaymentChannel.find(invoiceQuery): the matching documents
HistoryFind(payer, number) ==
    SelectSeq([i \in 1..Len(NumbersSeq) |-> db[NumbersSeq[i]]],
              LAMBDA doc : HistoryQueryMatches(payer, number, doc))

\* The call of line 486, as written:
\*   PaymentsProtocol.fetchInvoicesRealHistory(invoices, null, function(invoicesHistory) {...})
HistoryCall(invoices) == FetchEntry(JSArray(invoices), JSNull, JSFunction, JSUndefined)

\* A request arrives (lines 447-473): an invalid payer is answered at once,
\* otherwise the store query is issued.
GetInvoicesHistory(payer, number) ==
    /\ Len(requests) < MaxRequests
    /\ requests' = Append(requests,
          [payer |-> payer, number |-> number,
           state |-> IF payer = "" THEN "invalidPayer" ELSE "find",
           invoices |-> <<>>])
    /\ UNCHANGED <<feed, paymentTransactionHistory_, sweeps, decoded>>
    /\ UNCHANGED botVars

\* The store answers the query (lines 473-486): without invoices the request
\* is answered with an empty list; with invoices fetchInvoicesRealHistory is
\* called.  An exception thrown by that call leaves the callback: no response
\* is sent for the request.
HistoryFindReturns(r) ==
    LET invoices == HistoryFind(requests[r].payer, requests[r].number)
        outcome == HistoryCall(invoices)
        state == IF Len(invoices) = 0 THEN "okEmpty"
                 ELSE CASE outcome = "TypeError" -> "threw"
                        [] outcome = "callbackFalse" -> "okEmpty"
                        [] OTHER -> "sweeping"
    IN  /\ r \in 1..Len(requests)
        /\ requests[r].state = "find"
        /\ requests' = [requests EXCEPT ![r].state = state, ![r].invoices = invoices]
        /\ errors' = IF state = "threw"
                     THEN Append(errors, "TypeError: Cannot read property 'length' of null")
                     ELSE errors
        /\ UNCHANGED <<feed, paymentTransactionHistory_, sweeps, decoded>>
        /\ UNCHANGED <<db, now, channelSockets, botChannelSockets_, incomingStatusUpdates_,
                       emitted, tasks, delivered>>

\* The store query fails (lines 474-478): an error response is sent
HistoryFindFails(r) ==
    /\ r \in 1..Len(requests)
    /\ requests[r].state = "find"
    /\ requests' = [requests EXCEPT ![r].state = "errorResponse"]
    /\ UNCHANGED <<feed, paymentTransactionHistory_, sweeps, decoded>>
    /\ UNCHANGED botVars

\* ------------------------------------------------------ the environment
\* Transactions that may arrive on the chain while the process runs
NewTxChoices ==
    {[kind |-> "transfer", payload |-> "696e7631", amount |-> 600000],
     [kind |-> "multisig", payload |-> "494e5631", amount |-> 400000],
     [kind |-> "transfer", payload |-> "494e5632", amount |-> 1200000],
     [kind |-> "other", payload |-> "696e7631", amount |-> 600000],
     [kind |-> "transfer", payload |-> "", amount |-> 400000]}
MkTx(id, c) ==
    CASE c.kind = "transfer" -> Transfer(id, c.payload, c.amount)
      [] c.kind = "multisig" -> Multisig(id, c.payload, c.amount)
      [] OTHER -> OtherType(id, c.payload, c.amount)

\* The static feeds a process may start on: n records, ids n..1 newest first;
\* the newest is a transfer of a1 carrying "inv1", the oldest (if another) a
\* multisig transfer of 600,000 carrying "INV1", the rest carry no message.
StaticFeed(n, a1) ==
    [p \in 1..n |->
        IF p = 1 THEN Transfer(n, "696e7631", a1)
        ELSE IF p = n THEN Multisig(1, "494e5631", 600000)
        ELSE Transfer(n + 1 - p, "", 600000)]
InitFeeds ==
    {<<>>} \cup {StaticFeed(n, a1) : n \in {1, 2}, a1 \in {400000, 1200000}}
           \cup {StaticFeed(n, 400000) : n \in {PageSize, PageSize + 1}}
NewCount ==
    Cardinality({p \in 1..Len(feed["R1"]) : feed["R1"][p].id > PageSize + 1})
    + Cardinality({p \in 1..Len(feed["R2"]) : feed["R2"][p].id > PageSize + 1})

\* A new incoming transaction is confirmed for recipient r
NewTransaction(r, c) ==
    /\ NewCount < MaxNewTx
    /\ feed' = [feed EXCEPT ![r] = <<MkTx(PageSize + 2 + NewCount, c)>> \o @]
    /\ UNCHANGED <<paymentTransactionHistory_, sweeps, decoded, requests>>
    /\ UNCHANGED botVars

\* ---------------------------------------------------------------- specs
InitBase(feeds) ==
    /\ db = [n \in Numbers |-> NewInvoice(n)]
    /\ now = 1
    /\ channelSockets = <<>>
    /\ botChannelSockets_ = EmptyMap
    /\ incomingStatusUpdates_ = EmptyMap
    /\ emitted = <<>>
    /\ tasks = <<>>
    /\ errors = <<>>
    /\ delivered = <<>>
    /\ \E f \in feeds : feed = [r \in Recipients |-> IF r = "R1" THEN f ELSE <<>>]
    /\ paymentTransactionHistory_ = [byInvoice |-> EmptyMap, byHash |-> {}]
    /\ sweeps = <<>>
    /\ requests = <<>>

InitWith(feeds) == InitBase(feeds) /\ decoded = NoCall

SweepArgs == {<<"R1", <<"inv1">> >>, <<"R1", <<"inv1", "INV2">> >>}
NewTxR1 == {c \in NewTxChoices : c.payload = "696e7631"}

Init == InitWith(InitFeeds)

\* Each client socket opens its payment channel once
HasChannel(c) == \E i \in 1..Len(channelSockets) : channelSockets[i].clientId = c

\* The forwarder alone
NextBot ==
    \/ \E c \in ClientIds : ~HasChannel(c) /\ startPaymentChannel("inv1", c)
    \/ \E ch \in 1..Len(channelSockets), raw \in RawsBot : OnPaymentStatusUpdate(ch, raw)
    \/ \E t \in 1..MaxDeliveries : FindOneReturns(t)
    \/ \E t \in 1..MaxDeliveries : SaveSucceeds(t)
    \/ \E t \in 1..MaxDeliveries : SaveFails(t)
SpecBot == InitWith({<<>>}) /\ [][NextBot]_vars

\* The reconciliation engine alone
NextSweep ==
    \/ \E a \in SweepArgs : StartSweep(a[1], a[2])
    \/ \E s \in 1..MaxSweeps : GatewayResponds(s)
    \/ \E s \in 1..MaxSweeps : GatewayFails(s)
    \/ \E c \in NewTxR1 : NewTransaction("R1", c)
SpecSweep == Init /\ [][NextSweep]_vars

\* The forwarder with payloads that name no stored invoice
NextBotKeys ==
    \/ \E c \in ClientIds : ~HasChannel(c) /\ startPaymentChannel("inv1", c)
    \/ \E ch \in 1..Len(channelSockets), raw \in RawsKeys : OnPaymentStatusUpdate(ch, raw)
    \/ \E t \in 1..MaxDeliveries : FindOneReturns(t)
    \/ \E t \in 1..MaxDeliveries : SaveSucceeds(t)
    \/ \E t \in 1..MaxDeliveries : SaveFails(t)
SpecBotKeys == InitWith({<<>>}) /\ [][NextBotKeys]_vars

\* The reconciliation engine on feeds with malformed records ahead of a
\* matching transfer of 400,000: two records without meta.hash, two records
\* whose meta.hash has no data, a multisig envelope without otherTrans
WithHash(trx, h) == [trx EXCEPT !.hash = h]
MalformedFeeds ==
    {<<WithHash(Transfer(3, "", 0), h), WithHash(Transfer(2, "", 0), h),
       Transfer(1, "696e7631", 400000)>> : h \in {HashMissing, HashDataMissing}}
    \cup {<<[Multisig(2, "", 0) EXCEPT !.otherTrans = NoTrans],
            Transfer(1, "696e7631", 400000)>>}
SpecMalformed == InitWith(MalformedFeeds) /\ [][NextSweep]_vars

\* The forwarder with payloads that carry neither message nor sender
NextBotEmpty ==
    \/ \E c \in ClientIds : ~HasChannel(c) /\ startPaymentChannel("inv1", c)
    \/ \E ch \in 1..Len(channelSockets), raw \in RawsEmpty : OnPaymentStatusUpdate(ch, raw)
    \/ \E t \in 1..MaxDeliveries : FindOneReturns(t)
    \/ \E t \in 1..MaxDeliveries : SaveSucceeds(t)
    \/ \E t \in 1..MaxDeliveries : SaveFails(t)
SpecBotEmpty == InitWith({<<>>}) /\ [][NextBotEmpty]_vars

\* The reconciliation engine on a feed whose newest transfer carries no
\* message and was sent from the payer address of invoice inv1
SenderFeed ==
    <<WithSigner(Transfer(2, "", 400000), "P1"), Transfer(1, "696e7631", 600000)>>
SpecSender == InitWith({SenderFeed}) /\ [][NextSweep]_vars

\* The decoder helpers applied to one record each
NextDecoder ==
    \/ CallGetTransactionMessage
    \/ CallGetTransactionAmount
    \/ CallExtractMosaic
InitDecoder == InitBase({<<>>}) /\ decoded \in DecoderCalls
SpecDecoder == InitDecoder /\ [][NextDecoder]_vars

\* The reconciliation engine called for two recipients, and with an empty
\* list of invoices: the feed of R1 holds a transfer whose message names the
\* invoice of R2
RecipientArgs == {<<"R1", <<>> >>, <<"R1", <<"inv1">> >>, <<"R2", <<"INV2">> >>}
RecipientFeeds ==
    {<<Transfer(2, "494e5632", 1200000), Transfer(1, "696e7631", 400000)>>,
     <<Transfer(1, "696e7631", 400000)>>}
NewTxR2 == {c \in NewTxChoices : c.payload = "494e5632"}
NextRecipients ==
    \/ \E a \in RecipientArgs : StartSweep(a[1], a[2])
    \/ \E s \in 1..MaxSweeps : GatewayResponds(s)
    \/ \E s \in 1..MaxSweeps : GatewayFails(s)
    \/ \E c \in NewTxR2 : NewTransaction("R2", c)
SpecRecipients == InitWith(RecipientFeeds) /\ [][NextRecipients]_vars

\* The reconciliation engine next to the forwarder saving one paid update
\* for invoice inv1, on a feed of one transfer of 400,000
RawPaid == MkRaw("paid", <<"inv1", "">>, 1000000, 0)
NextStore ==
    \/ ~HasChannel("c1") /\ startPaymentChannel("inv1", "c1")
    \/ \E ch \in 1..Len(channelSockets) : OnPaymentStatusUpdate(ch, RawPaid)
    \/ \E t \in 1..MaxDeliveries : FindOneReturns(t)
    \/ \E t \in 1..MaxDeliveries : SaveSucceeds(t)
    \/ \E t \in 1..MaxDeliveries : SaveFails(t)
    \/ StartSweep("R1", <<"inv1">>)
    \/ \E s \in 1..MaxSweeps : GatewayResponds(s)
    \/ \E s \in 1..MaxSweeps : GatewayFails(s)
SpecStore == InitWith({StaticFeed(1, 400000)}) /\ [][NextStore]_vars

\* Forwarder and reconciliation engine for an invoice that the bot reports
\* as expired, on a feed of one transfer of 1,200,000
NextExpired ==
    \/ ~HasChannel("c1") /\ startPaymentChannel("inv1", "c1")
    \/ \E ch \in 1..Len(channelSockets), raw \in RawsExpired : OnPaymentStatusUpdate(ch, raw)
    \/ \E t \in 1..MaxDeliveries : FindOneReturns(t)
    \/ \E t \in 1..MaxDeliveries : SaveSucceeds(t)
    \/ \E t \in 1..MaxDeliveries : SaveFails(t)
    \/ StartSweep("R1", <<"inv1">>)
    \/ \E s \in 1..MaxSweeps : GatewayResponds(s)
    \/ \E s \in 1..MaxSweeps : GatewayFails(s)
SpecExpired == InitWith({StaticFeed(1, 1200000)}) /\ [][NextExpired]_vars

\* The history endpoint alone
NextHistory ==
    \/ \E payer \in HistoryPayers, number \in HistoryNumbers : GetInvoicesHistory(payer, number)
    \/ \E r \in 1..MaxRequests : HistoryFindReturns(r)
    \/ \E r \in 1..MaxRequests : HistoryFindFails(r)
SpecHistory == InitWith({<<>>, StaticFeed(1, 400000)}) /\ [][NextHistory]_vars

\* Forwarder and reconciliation engine in one process, for invoice inv1 with
\* one client
NextTxs == {c \in NewTxChoices : c.payload = "696e7631" /\ c.kind = "transfer"}
Next ==
    \/ ~HasChannel("c1") /\ startPaymentChannel("inv1", "c1")
    \/ \E ch \in 1..Len(channelSockets), raw \in RawsSmall : OnPaymentStatusUpdate(ch, raw)
    \/ \E t \in 1..MaxDeliveries : FindOneReturns(t)
    \/ \E t \in 1..MaxDeliveries : SaveSucceeds(t)
    \/ \E t \in 1..MaxDeliveries : SaveFails(t)
    \/ StartSweep("R1", <<"inv1">>)
    \/ \E s \in 1..MaxSweeps : GatewayResponds(s)
    \/ \E s \in 1..MaxSweeps : GatewayFails(s)
    \/ \E c \in NextTxs : NewTransaction("R1", c)
Spec == InitWith({<<>>, StaticFeed(1, 400000)}) /\ [][Next]_vars

\* ===================================================================
\* Properties
\* ===================================================================

\* How often a raw payload was delivered, forwarded to a client, and handed
\* to storeInvoiceStatusUpdate
DeliveriesOf(raw) == Cardinality({i \in 1..Len(delivered) : delivered[i].raw = raw})
ForwardsOf(raw) ==
    Cardinality({i \in 1..Len(emitted) :
                    /\ emitted[i].event = "nem2pay_payment_status_update"
                    /\ emitted[i].cause = raw})
RunsOf(raw) == Cardinality({t \in 1..Len(tasks) : tasks[t].raw = raw})

\* C1: a raw payload delivered once or more, on any channels and in any
\* interleaving with other deliveries and store callbacks, has been forwarded
\* as nem2pay_payment_status_update exactly once and has started exactly one
\* storeInvoiceStatusUpdate run.
C1_DuplicateDeliveredOnce ==
    \A i \in 1..Len(delivered) :
        ForwardsOf(delivered[i].raw) = 1 /\ RunsOf(delivered[i].raw) = 1

\* C1 case: the same bytes arrived on two different bot channels
C1_Witness ==
    \E i, j \in 1..Len(delivered) :
        /\ i < j
        /\ delivered[i].raw = delivered[j].raw
        /\ delivered[i].channel # delivered[j].channel
        /\ ForwardsOf(delivered[i].raw) = 1

\* The sum of the amounts of the transfers (plain or multisig) of a feed
\* whose message names invoice num, and the status that sum stands for
MessageText(trx) ==
    LET content == RealContent(trx)
    IN  IF content.k = "undefined" THEN "" ELSE toUpperCase(hex2a(content.v.payload))
AmountValue(trx) ==
    LET content == RealContent(trx)
    IN  IF content.k = "undefined" THEN 0 ELSE content.v.amount
RECURSIVE MatchedTotal(_, _, _)
MatchedTotal(txs, i, num) ==
    IF i > Len(txs) THEN 0
    ELSE (IF /\ txs[i].type \in {"transfer", "multisigTransaction"}
             /\ MessageText(txs[i]) = num
          THEN AmountValue(txs[i]) ELSE 0)
         + MatchedTotal(txs, i + 1, num)
StatusFor(total, amount) ==
    IF total > amount THEN "overpaid"
    ELSE IF total = amount THEN "paid"
    ELSE IF total > 0 THEN "paid_partly"
    ELSE "not_paid"

\* C2: on a static feed of more than one page (the first page full), a sweep
\* whose gateway requests did not fail ends by delivering its callback, with
\* every invoice's amountPaid the sum of its matching transfers over all pages
\* and the status derived from that sum.
C2_MultiPageSweepSums ==
    \A s \in 1..Len(sweeps) :
        (/\ NewCount = 0
         /\ Len(feed[sweeps[s].recipient]) > PageSize
         /\ sweeps[s].state \notin {"requested", "rejected"})
        => /\ sweeps[s].state = "delivered"
           /\ \A i \in 1..Len(sweeps[s].invoices) :
                LET num == toUpperCase(sweeps[s].invoices[i].number)
                    invoice == paymentTransactionHistory_.byInvoice[num].invoice
                    total == MatchedTotal(feed[sweeps[s].recipient], 1, num)
                IN  /\ invoice.amountPaid = total
                    /\ invoice.status = StatusFor(total, invoice.amount)

\* The step in which sweep s handles a page of the gateway
PageStep(s) ==
    /\ s \in 1..Len(sweeps)
    /\ sweeps[s].state = "requested"
    /\ sweeps'[s].pages = sweeps[s].pages + 1
InvoiceState(invoice) == <<invoice.amountPaid, invoice.status, invoice.isPaid>>

\* C3: when a sweep is run again for the same recipient and invoices over a
\* feed that has not changed since the previous sweep, handling its page
\* leaves amountPaid, status and isPaid of each of its invoices as they were.
C3_RerunIdempotent ==
    [][\A s \in 1..Len(sweeps) :
          (PageStep(s) /\ IsRerun(s))
          => \A i \in 1..Len(sweeps[s].invoices) :
                LET num == toUpperCase(sweeps[s].invoices[i].number)
                IN  InvoiceState(paymentTransactionHistory_'.byInvoice[num].invoice)
                    = InvoiceState(paymentTransactionHistory_.byInvoice[num].invoice)]_vars

\* C3 case: a re-run has delivered its callback for an invoice with payments
C3_Witness ==
    \E s \in 1..Len(sweeps) :
        /\ sweeps[s].rerun
        /\ sweeps[s].state = "delivered"
        /\ \E i \in 1..Len(sweeps[s].invoices) :
              paymentTransactionHistory_.byInvoice[
                  toUpperCase(sweeps[s].invoices[i].number)].invoice.amountPaid > 0

\* C4: handling a page never lowers the amountPaid of an invoice of the
\* accumulator map, whatever the invoice held before (a value stored by a bot
\* status update included).
C4_AmountPaidNeverLowered ==
    [][\A s \in 1..Len(sweeps) :
          PageStep(s)
          => \A num \in DOMAIN paymentTransactionHistory_.byInvoice :
                paymentTransactionHistory_'.byInvoice[num].invoice.amountPaid
                >= paymentTransactionHistory_.byInvoice[num].invoice.amountPaid]_vars

\* C5: in every state, a stored invoice and an invoice of the accumulator map
\* with isPaid set has amountPaid at or above its requested amount.
C5_IsPaidMeansCovered ==
    /\ \A n \in Numbers : db[n].isPaid => db[n].amountPaid >= db[n].amount
    /\ \A num \in DOMAIN paymentTransactionHistory_.byInvoice :
          LET invoice == paymentTransactionHistory_.byInvoice[num].invoice
          IN  invoice.isPaid => invoice.amountPaid >= invoice.amount

FullyPaid(invoice) ==
    /\ invoice.amountPaid >= invoice.amount
    /\ invoice.status \in {"paid", "overpaid"}

\* C7: when the save of a bot status update succeeds and the stored invoice is
\* then fully paid, the save callback emits nem2pay_payment_success to every
\* client registered for the invoice's number.
C7_SuccessEmitted ==
    [][\A t \in 1..Len(tasks) :
          (/\ tasks[t].pc = "save"
           /\ tasks'[t].pc \in {"saved", "successPath"}
           /\ FullyPaid(db'[tasks[t].invoice.number])
           /\ hasOwnProperty(botChannelSockets_, tasks[t].invoice.number))
          => \A i \in 1..Len(botChannelSockets_[tasks[t].invoice.number]) :
                \E j \in (Len(emitted) + 1)..Len(emitted') :
                    /\ emitted'[j].event = "nem2pay_payment_success"
                    /\ emitted'[j].to = botChannelSockets_[tasks[t].invoice.number][i].clientId]_vars

\* C8: after a page is handled, an invoice whose running total equals its
\* amount is paid with isPaid set, and one whose running total exceeds its
\* amount is overpaid with isPaid set.
C8_PaidAndOverpaid ==
    [][\A s \in 1..Len(sweeps) :
          PageStep(s)
          => \A num \in DOMAIN paymentTransactionHistory_'.byInvoice :
                LET entry == paymentTransactionHistory_'.byInvoice[num]
                IN  /\ entry.totalPaid = entry.invoice.amount
                       => entry.invoice.status = "paid" /\ entry.invoice.isPaid
                    /\ entry.totalPaid > entry.invoice.amount
                       => entry.invoice.status = "overpaid" /\ entry.invoice.isPaid]_vars

\* C9: after a page is handled, an invoice whose running total is above 0 and
\* below its amount is paid_partly, and one whose running total is 0 is
\* not_paid.
C9_PartlyAndNotPaid ==
    [][\A s \in 1..Len(sweeps) :
          PageStep(s)
          => \A num \in DOMAIN paymentTransactionHistory_'.byInvoice :
                LET entry == paymentTransactionHistory_'.byInvoice[num]
                IN  /\ (0 < entry.totalPaid /\ entry.totalPaid < entry.invoice.amount)
                       => entry.invoice.status = "paid_partly"
                    /\ entry.totalPaid = 0
                       => entry.invoice.status = "not_paid"]_vars

\* C10: a sweep that is abandoned in its catch handler (the gateway request
\* rejected, or the request for the next page failed) leaves the running
\* totals, the seen-hash marks and the invoices of the accumulator map as they
\* were before the page.
C10_AbandonedSweepLeavesNothing ==
    [][\A s \in 1..Len(sweeps) :
          (/\ sweeps[s].state = "requested"
           /\ sweeps'[s].state \in {"rejected", "threw"})
          => paymentTransactionHistory_' = paymentTransactionHistory_]_vars

C12_MalformedSkipped ==
    [][\A s \in 1..Len(sweeps) :
          (/\ PageStep(s)
           /\ paymentTransactionHistory_.byHash = {}
           /\ Len(feed[sweeps[s].recipient]) < PageSize)
          => /\ sweeps'[s].state = "delivered"
             /\ \A num \in DOMAIN paymentTransactionHistory_'.byInvoice :
                   paymentTransactionHistory_'.byInvoice[num].totalPaid
                   = MatchedTotal(feed[sweeps[s].recipient], 1, num)]_vars

\* Does a payload name no stored invoice, by message or by sender?
Unmatched(data) ==
    /\ data.message # "" \/ data.sender # ""
    /\ \A n \in Numbers : db[n].number # data.message /\ db[n].payerXEM # data.sender

\* C13: the run for a payload that names no stored invoice ends at the lookup
\* (it never reaches the save), and its lookup step changes no stored
\* invoice, emits nothing and logs no error.
C13_UnmatchedDropped ==
    [][\A t \in 1..Len(tasks) :
          Unmatched(tasks[t].data)
          => /\ tasks'[t].pc \in {"findOne", "notFound"}
             /\ tasks'[t] # tasks[t]
                => db' = db /\ emitted' = emitted /\ errors' = errors]_vars

\* C13 case: both unmatched payloads were looked up and dropped
C13_Witness ==
    /\ Len(tasks) = 2
    /\ \A t \in 1..2 : tasks[t].pc = "notFound"
    /\ tasks[1].data.message # tasks[2].data.message

\* C14: a stored invoice whose status is paid or overpaid is never moved back
\* to not_paid, identified or unconfirmed.
C14_StatusNeverMovesBack ==
    [][\A n \in Numbers :
          db[n].status \in {"paid", "overpaid"}
          => db'[n].status \notin {"not_paid", "identified", "unconfirmed"}]_vars

\* C15: once a stored invoice has a paidAt value, no step changes it.
C15_PaidAtSetOnce ==
    [][\A n \in Numbers : db[n].paidAt # 0 => db'[n].paidAt = db[n].paidAt]_vars

\* The plain transfer whose own content is the inner transaction of a
\* multisig envelope
AsPlainTransfer(trx) ==
    [trx EXCEPT !.type = "transfer",
                !.amount = trx.otherTrans.v.amount,
                !.payload = trx.otherTrans.v.payload,
                !.mosaics = trx.otherTrans.v.mosaics,
                !.recipient = trx.otherTrans.v.recipient,
                !.otherTrans = NoTrans]
Reader(trx) ==
    IF decoded.fn = "getTransactionMessage"
    THEN getTransactionMessage(trx, decoded.doDecrypt, decoded.outcome)
    ELSE getTransactionAmount(trx, decoded.slug, decoded.divisibility)

\* C16: for a multisig envelope, getTransactionAmount and
\* getTransactionMessage return what they return for the plain transfer made
\* of the inner transaction, whatever the envelope's own amount, mosaics and
\* message; for a plain transfer they return what they return for the same
\* record without otherTrans.
C16_ReadsInnerTransaction ==
    (/\ decoded.fn \in {"getTransactionMessage", "getTransactionAmount"}
     /\ decoded.result.k # "pending")
    => LET trx == decoded.trx.v
       IN  /\ (trx.type = "multisigTransaction" /\ trx.otherTrans.k = "object")
              => decoded.result = Reader(AsPlainTransfer(trx))
           /\ trx.type = "transfer"
              => decoded.result = Reader([trx EXCEPT !.otherTrans = NoTrans])

\* C16 case: the message of an envelope that carries another message itself
C16_Witness ==
    /\ decoded.fn = "getTransactionMessage"
    /\ decoded.trx.v.type = "multisigTransaction"
    /\ decoded.trx.v.payload = "696e7631"
    /\ decoded.trx.v.otherTrans.k = "object"
    /\ decoded.trx.v.otherTrans.v.payload = "494e5631"
    /\ ~decoded.doDecrypt
    /\ decoded.result.k = "string"
    /\ decoded.result.v = "INV1"

\* C17: for a transaction without mosaic list (absent or empty), and every
\* divisibility, getTransactionAmount returns the amount field for the slug
\* nem:xem and 0 for every other slug.
C17_AmountWithoutMosaics ==
    (/\ decoded.fn = "getTransactionAmount"
     /\ decoded.result.k # "pending"
     /\ RealContent(decoded.trx.v).k = "object"
     /\ \/ RealContent(decoded.trx.v).v.mosaics.k = "undefined"
        \/ Len(RealContent(decoded.trx.v).v.mosaics.v) = 0)
    => decoded.result = IF decoded.slug = "nem:xem"
                        THEN JSNumber(RealContent(decoded.trx.v).v.amount)
                        ELSE JSNumber(0)

\* C17 case: another slug than nem:xem on a transfer of 2,000,000 without
\* mosaics, divisibility 3
C17_Witness ==
    /\ decoded.fn = "getTransactionAmount"
    /\ decoded.slug = "ns:heart"
    /\ decoded.divisibility = 3
    /\ decoded.trx.v.type = "transfer"
    /\ decoded.trx.v.amount = 2000000
    /\ decoded.trx.v.mosaics.k = "undefined"
    /\ decoded.result.k = "number"
    /\ decoded.result.v = 0

\* The content whose mosaics the extractor is to read, and whether its list
\* holds the slug asked for
HoldsSlug(content, slug) ==
    /\ content.k = "object"
    /\ content.v.mosaics.k = "array"
    /\ \E j \in 1..Len(content.v.mosaics.v) : SlugOf(content.v.mosaics.v[j]) = slug
FirstWithSlug(mosaics, slug) ==
    CHOOSE j \in 1..Len(mosaics) :
        /\ SlugOf(mosaics[j]) = slug
        /\ \A i \in 1..(j - 1) : SlugOf(mosaics[i]) # slug
Max(a, b) == IF a >= b THEN a ELSE b

\* C18: for a transaction whose mosaic list holds the slug asked for,
\* extractMosaicFromTransactionData_ returns totalMosaic = quantity x
\* max(1, floor(amount / 10^divisibility)) and the recipient.
C18_MosaicTotal ==
    (/\ decoded.fn = "extractMosaicFromTransactionData_"
     /\ decoded.result.k # "pending"
     /\ decoded.trx.k = "object"
     /\ decoded.slug # ""
     /\ HoldsSlug(RealContent(decoded.trx.v), decoded.slug))
    => LET content == RealContent(decoded.trx.v).v
           entry == content.mosaics.v[FirstWithSlug(content.mosaics.v, decoded.slug)]
       IN  /\ decoded.result.k = "object"
           /\ decoded.result.v.totalMosaic
              = entry.quantity * Max(1, content.amount \div Pow10(decoded.divisibility))
           /\ decoded.result.v.recipient = JSString(content.recipient)

\* C19: extractMosaicFromTransactionData_ returns the not-found object (zero
\* quantity, no recipient) for an empty content or slug, for a multisig
\* envelope without inner transaction or without mosaic list, for a plain
\* transfer without a non-empty mosaic list, and for a list without the slug.
C19_NotFoundResult ==
    (/\ decoded.fn = "extractMosaicFromTransactionData_"
     /\ decoded.result.k # "pending"
     /\ \/ decoded.trx.k = "null"
        \/ decoded.slug = ""
        \/ ~HoldsSlug(RealContent(decoded.trx.v), decoded.slug))
    => /\ decoded.result.k = "object"
       /\ decoded.result.v.totalMosaic = 0
       /\ decoded.result.v.recipient.k = "false"

\* C20: getTransactionMessage with decrypt requested, on a payload that was
\* not encrypted with the secret key, ends with a decode error and returns no
\* value.
C20_DecryptFailureSurfaced ==
    (/\ decoded.fn = "getTransactionMessage"
     /\ decoded.result.k # "pending"
     /\ decoded.doDecrypt
     /\ RealContent(decoded.trx.v).k = "object"
     /\ RealContent(decoded.trx.v).v.payload # ""
     /\ ~Decryptable(hex2a(RealContent(decoded.trx.v).v.payload)))
    => decoded.result.k = "DecodeError"

\* C21: a history request whose store query found at least one invoice is
\* either waiting for its sweep or answered with the invoice states of the
\* sweep's completion callback; it is never left without an answer.
C21_HistoryAnswersValidated ==
    \A r \in 1..Len(requests) :
        Len(requests[r].invoices) > 0 => requests[r].state \in {"sweeping", "answered"}

\* The page the gateway returns to the pending request of sweep s, the first
\* record of it whose hash is already marked (Len + 1 if none), and whether
\* the page calls for another one: full, and no record of it marked
PageOf(s) == Page(feed[sweeps[s].recipient], sweeps[s].lastTrxRead)
FirstSeen(page) ==
    LET seen == {i \in 1..Len(page) :
                    getTransactionHash(page[i]) \in paymentTransactionHistory_.byHash}
    IN  IF seen = {} THEN Len(page) + 1
        ELSE CHOOSE i \in seen : \A j \in seen : i <= j
WalkContinues(s) ==
    /\ Len(PageOf(s)) = PageSize
    /\ FirstSeen(PageOf(s)) > Len(PageOf(s))

\* C22: when the gateway answers a page request of a sweep, a full page
\* without a seen hash makes the sweep request the next page, and a shorter
\* page or a seen hash makes it deliver its callback; a sweep that has
\* delivered its callback does nothing more.
C22_WalkEndsInCallback ==
    [][\A s \in 1..Len(sweeps) :
          /\ PageStep(s)
             => sweeps'[s].state = IF WalkContinues(s) THEN "requested" ELSE "delivered"
          /\ sweeps[s].state = "delivered" => sweeps'[s] = sweeps[s]]_vars

\* C23: a sweep's first request carries the caller's cursor (null), and each
\* request after a page carries the sweep's recipient and invoices and, as id
\* cursor, the id of the last record of the page before.
C23_RequestArguments ==
    [][\A s \in 1..Len(sweeps') :
          /\ (s > Len(sweeps) /\ sweeps'[s].state = "requested")
             => sweeps'[s].lastTrxRead = JSNull
          /\ (s <= Len(sweeps) /\ PageStep(s) /\ WalkContinues(s))
             => /\ sweeps'[s].state = "requested"
                /\ sweeps'[s].recipient = sweeps[s].recipient
                /\ sweeps'[s].invoices = sweeps[s].invoices
                /\ sweeps'[s].lastTrxRead
                   = JSNumber(getTransactionId(PageOf(s)[PageSize]))]_vars

\* C24: a call of fetchInvoicesRealHistory with an empty list of invoices
\* calls the callback with false and leaves the accumulators and the
\* seen-hash marks as they are; such a call is never waiting for the gateway
\* and never handles a page.
C24_EmptyInvoicesCallbackFalse ==
    /\ [](\A s \in 1..Len(sweeps) :
             Len(sweeps[s].invoices) = 0
             => sweeps[s].state = "callbackFalse" /\ sweeps[s].pages = 0)
    /\ [][\A s \in 1..Len(sweeps') :
             (s > Len(sweeps) /\ Len(sweeps'[s].invoices) = 0)
             => paymentTransactionHistory_' = paymentTransactionHistory_]_vars

\* C24 case: a call with an empty list was made after a sweep had filled
\* accumulators and seen-hash marks
C24_Witness ==
    \E s \in 1..Len(sweeps) :
        /\ Len(sweeps[s].invoices) = 0
        /\ sweeps[s].state = "callbackFalse"
        /\ s > 1
        /\ sweeps[1].state = "delivered"
        /\ paymentTransactionHistory_.byHash # {}
        /\ DOMAIN paymentTransactionHistory_.byInvoice # {}

\* Does a record count for the accumulator key num: a transfer or multisig
\* transfer whose message, in upper case, is num
CountsFor(trx, num) ==
    /\ trx.type \in {"transfer", "multisigTransaction"}
    /\ MessageText(trx) = num
\* The records of a page ahead of position k
Ahead(page, k) == SubSeq(page, 1, k - 1)

\* C25: when the page handed to a sweep holds a record whose hash is already
\* marked, the accumulators gain exactly the counting records ahead of the
\* first such record (nothing of it or behind it), the hashes ahead of it are
\* marked, no further page is requested and the callback is delivered.
C25_SeenHashStopsScan ==
    [][\A s \in 1..Len(sweeps) :
          (PageStep(s) /\ FirstSeen(PageOf(s)) <= Len(PageOf(s)))
          => LET page == PageOf(s)
                 k == FirstSeen(page)
             IN  /\ sweeps'[s].state = "delivered"
                 /\ sweeps'[s].lastTrxRead = JSFalse
                 /\ paymentTransactionHistory_'.byHash
                    = paymentTransactionHistory_.byHash
                      \cup {getTransactionHash(page[i]) : i \in 1..(k - 1)}
                 /\ \A num \in DOMAIN paymentTransactionHistory_.byInvoice :
                       LET before == paymentTransactionHistory_.byInvoice[num]
                           after == paymentTransactionHistory_'.byInvoice[num]
                       IN  /\ after.transactions
                              = before.transactions
                                \o SelectSeq(Ahead(page, k), LAMBDA t : CountsFor(t, num))
                           /\ after.totalPaid
                              = before.totalPaid + MatchedTotal(Ahead(page, k), 1, num)]_vars

\* C25 case: a sweep counted a new record and then stopped at a marked hash:
\* its callback is delivered, the running total is ahead of amountPaid
C25_Witness ==
    \E s \in 1..Len(sweeps) :
        /\ sweeps[s].state = "delivered"
        /\ sweeps[s].lastTrxRead = JSFalse
        /\ \E num \in DOMAIN paymentTransactionHistory_.byInvoice :
              LET entry == paymentTransactionHistory_.byInvoice[num]
              IN  /\ Len(entry.transactions) >= 2
                  /\ entry.totalPaid > entry.invoice.amountPaid

\* How often a record occurs in a transaction list
Occurrences(transactions, trx) ==
    Cardinality({j \in 1..Len(transactions) : transactions[j] = trx})
\* Is the record's hash unmarked?
Unseen(trx) == getTransactionHash(trx) \notin paymentTransactionHistory_.byHash

\* C26: when a page is handled, a record of the page is appended (once) to
\* the transaction list of accumulator key num exactly if its hash was not
\* marked, its type is transfer or multisig and its message in upper case is
\* num; the running total of num grows by the amounts of the records appended
\* and the list by nothing else; no accumulator key appears or disappears.
C26_CountedIffMatching ==
    [][\A s \in 1..Len(sweeps) :
          PageStep(s)
          => LET page == PageOf(s)
             IN  /\ DOMAIN paymentTransactionHistory_'.byInvoice
                    = DOMAIN paymentTransactionHistory_.byInvoice
                 /\ \A num \in DOMAIN paymentTransactionHistory_.byInvoice :
                       LET before == paymentTransactionHistory_.byInvoice[num]
                           after == paymentTransactionHistory_'.byInvoice[num]
                           counted == {i \in 1..Len(page) :
                                          Unseen(page[i]) /\ CountsFor(page[i], num)}
                       IN  /\ \A i \in 1..Len(page) :
                                Occurrences(after.transactions, page[i])
                                = Occurrences(before.transactions, page[i])
                                  + (IF i \in counted THEN 1 ELSE 0)
                           /\ Len(after.transactions)
                              = Len(before.transactions) + Cardinality(counted)
                           /\ after.totalPaid
                              = before.totalPaid
                                + MatchedTotal(SelectSeq(page, Unseen), 1, num)]_vars

\* C26 case: a page held a multisig transfer whose message differs from the
\* invoice number in case only, which was counted, and a record of another
\* type carrying the invoice number, which was marked but not counted
C26_Witness ==
    /\ hasOwnProperty(paymentTransactionHistory_.byInvoice, "INV1")
    /\ Len(feed["R1"]) > 0
    /\ feed["R1"][1].type = "importanceTransfer"
    /\ MessageText(feed["R1"][1]) = "INV1"
    /\ ~Unseen(feed["R1"][1])
    /\ LET transactions == paymentTransactionHistory_.byInvoice["INV1"].transactions
       IN  /\ Occurrences(transactions, feed["R1"][1]) = 0
           /\ \E j \in 1..Len(transactions) :
                 /\ transactions[j].type = "multisigTransaction"
                 /\ hex2a(transactions[j].otherTrans.v.payload) = "INV1"

\* C27: when a sweep delivers its callback with the accumulator map, every
\* entry's invoice has amountPaid equal to the running total, and is paid
\* (overpaid) with isPaid set when the total reaches (exceeds) its amount.
C27_DeliveredMapWrittenBack ==
    [][\A s \in 1..Len(sweeps) :
          (sweeps[s].state = "requested" /\ sweeps'[s].state = "delivered")
          => \A num \in DOMAIN paymentTransactionHistory_'.byInvoice :
                LET entry == paymentTransactionHistory_'.byInvoice[num]
                IN  /\ entry.invoice.amountPaid = entry.totalPaid
                    /\ entry.totalPaid >= entry.invoice.amount
                       => /\ entry.invoice.isPaid
                          /\ entry.invoice.status
                             = IF entry.totalPaid > entry.invoice.amount
                               THEN "overpaid" ELSE "paid"]_vars

\* A step of the reconciliation engine: a call of fetchInvoicesRealHistory or
\* one of its promise handlers
SweepStep == sweeps' # sweeps

\* C28: a step of a sweep leaves the invoice store as it is; on the invoice
\* objects of the accumulator map it changes nothing but amountPaid, status,
\* isPaid and dirty (amountUnconfirmed and paidAt stay), and an accumulator it
\* creates holds the invoice object it was given.
C28_SweepWritesNoStore ==
    [][SweepStep
       => /\ db' = db
          /\ \A num \in DOMAIN paymentTransactionHistory_'.byInvoice :
                LET after == paymentTransactionHistory_'.byInvoice[num].invoice
                IN  IF hasOwnProperty(paymentTransactionHistory_.byInvoice, num)
                    THEN LET before == paymentTransactionHistory_.byInvoice[num].invoice
                         IN  after = [before EXCEPT !.amountPaid = after.amountPaid,
                                                    !.status = after.status,
                                                    !.isPaid = after.isPaid,
                                                    !.dirty = after.dirty]
                    ELSE \E n \in Numbers : after = db[n]]_vars

\* C28 case: a sweep has written a total back to an invoice object that was
\* loaded with a payment date and differs from the stored document, which
\* still holds what the last status update saved
C28_Witness ==
    \E num \in DOMAIN paymentTransactionHistory_.byInvoice :
        LET invoice == paymentTransactionHistory_.byInvoice[num].invoice
        IN  /\ invoice.dirty
            /\ invoice.paidAt > 0
            /\ db[invoice.number].paidAt = invoice.paidAt
            /\ invoice.amountPaid # db[invoice.number].amountPaid
            /\ ~db[invoice.number].dirty

\* The accumulator keys of the invoices sweep s was called with
KeysOf(s) == {toUpperCase(sweeps[s].invoices[i].number) : i \in 1..Len(sweeps[s].invoices)}

\* C29: when a sweep handles a page, the accumulators of invoices that were
\* not passed to it (running total, transaction list, and the invoice's
\* amountPaid, status and isPaid) stay as they are.
C29_OtherInvoicesUntouched ==
    [][\A s \in 1..Len(sweeps) :
          PageStep(s)
          => \A num \in DOMAIN paymentTransactionHistory_.byInvoice :
                num \notin KeysOf(s)
                => LET before == paymentTransactionHistory_.byInvoice[num]
                       after == paymentTransactionHistory_'.byInvoice[num]
                   IN  /\ after.totalPaid = before.totalPaid
                       /\ after.transactions = before.transactions
                       /\ InvoiceState(after.invoice) = InvoiceState(before.invoice)]_vars

\* The sum of the amounts of a list of transactions
RECURSIVE SumAmounts(_, _)
SumAmounts(transactions, i) ==
    IF i > Len(transactions) THEN 0
    ELSE AmountValue(transactions[i]) + SumAmounts(transactions, i + 1)
\* All transactions the gateway knows
AllFeeds == feed["R1"] \o feed["R2"]

\* C30: no transaction is in two places of the accumulators' lists (twice in
\* one list, or in two lists); each running total is the sum of the amounts
\* of its list, and is at most the sum of the transfers of the feeds that
\* carry the invoice's number.
C30_CountedAtMostOnce ==
    LET byInvoice == paymentTransactionHistory_.byInvoice
    IN  /\ \A num1, num2 \in DOMAIN byInvoice :
              \A j1 \in 1..Len(byInvoice[num1].transactions),
                 j2 \in 1..Len(byInvoice[num2].transactions) :
                  getTransactionHash(byInvoice[num1].transactions[j1])
                  = getTransactionHash(byInvoice[num2].transactions[j2])
                  => (num1 = num2 /\ j1 = j2)
        /\ \A num \in DOMAIN byInvoice :
              /\ byInvoice[num].totalPaid = SumAmounts(byInvoice[num].transactions, 1)
              /\ byInvoice[num].totalPaid <= MatchedTotal(AllFeeds, 1, num)

\* C30 case: two sweeps for the same recipient were waiting for the gateway
\* at the same time (the second ended first); the second counted the feed's
\* payments, the first then met the marked hashes
C30_Witness ==
    /\ Len(sweeps) = 2
    /\ sweeps[1].recipient = sweeps[2].recipient
    /\ sweeps[2].endOrder = 1
    /\ sweeps[1].endOrder = 2
    /\ sweeps[2].lastTrxRead.k = "number"
    /\ sweeps[1].lastTrxRead = JSFalse
    /\ \E num \in DOMAIN paymentTransactionHistory_.byInvoice :
          /\ Len(paymentTransactionHistory_.byInvoice[num].transactions) >= 2
          /\ paymentTransactionHistory_.byInvoice[num].totalPaid
             = MatchedTotal(AllFeeds, 1, num)

\* C31: a stored invoice, and an invoice object of the accumulator map, whose
\* status is expired keeps that status and does not get isPaid set, whatever
\* step is taken.
C31_ExpiredIsTerminal ==
    [][/\ \A n \in Numbers :
             db[n].status = "expired"
             => db'[n].status = "expired" /\ (db'[n].isPaid => db[n].isPaid)
       /\ \A num \in DOMAIN paymentTransactionHistory_.byInvoice :
             LET before == paymentTransactionHistory_.byInvoice[num].invoice
                 after == paymentTransactionHistory_'.byInvoice[num].invoice
             IN  before.status = "expired"
                 => after.status = "expired" /\ (after.isPaid => before.isPaid)]_vars

\* The fields that identify an invoice and state what is requested
Identity(invoice) ==
    <<invoice.number, invoice.payerXEM, invoice.recipientXEM, invoice.amount>>

\* C32: no step changes number, payer address, recipient address or amount
\* of a stored invoice, of the invoice object a status update works on, or of
\* an invoice object of the accumulator map; an object a step loads carries
\* the stored values.
C32_IdentityUnchanged ==
    [][/\ \A n \in Numbers : Identity(db'[n]) = Identity(db[n])
       /\ \A t \in 1..Len(tasks') :
             tasks'[t].pc \in {"save", "saved", "successPath", "saveError"}
             => Identity(tasks'[t].invoice) = Identity(db[tasks'[t].invoice.number])
       /\ \A num \in DOMAIN paymentTransactionHistory_'.byInvoice :
             LET after == paymentTransactionHistory_'.byInvoice[num].invoice
             IN  Identity(after) = Identity(db[after.number])]_vars

\* C32 case: for one invoice a payment channel was opened, a paid status
\* update was saved and a sweep wrote a total back
C32_Witness ==
    /\ Len(db["inv1"].socketIds) > 0
    /\ db["inv1"].isPaid
    /\ db["inv1"].status = "paid"
    /\ hasOwnProperty(paymentTransactionHistory_.byInvoice, "INV1")
    /\ paymentTransactionHistory_.byInvoice["INV1"].invoice.dirty
    /\ paymentTransactionHistory_.byInvoice["INV1"].invoice.amountPaid = 400000
    /\ Identity(db["inv1"]) = Identity(NewInvoice("inv1"))

\* C33: a transfer without message that a finished sweep has read, and that
\* was sent from the payer address of an invoice of the sweep, is in that
\* invoice's list of matched transactions and counted in its running total.
C33_MatchedBySender ==
    \A s \in 1..Len(sweeps), i \in 1..Len(feed["R1"]) :
      LET trx == feed["R1"][i]
          byInvoice == paymentTransactionHistory_.byInvoice
      IN  /\ sweeps[s].state = "delivered"
          /\ ~Unseen(trx)
          /\ trx.type = "transfer"
          /\ getTransactionMessage(trx, FALSE, "garbage").v = ""
          => \A num \in DOMAIN byInvoice :
               byInvoice[num].invoice.payerXEM = trx.signer
               => /\ Occurrences(byInvoice[num].transactions, trx) = 1
                  /\ byInvoice[num].totalPaid >= trx.amount

\* The client socket id of the bot channel on which a raw payload arrived
\* first
FirstChannelClient(raw) ==
    LET first == CHOOSE i \in 1..Len(delivered) :
                    /\ delivered[i].raw = raw
                    /\ \A j \in 1..(i - 1) : delivered[j].raw # raw
    IN  channelSockets[delivered[first].channel].clientId

\* C34: every nem2pay_payment_status_update event went to the client socket
\* id of the bot channel that received its payload, and is the only one for
\* that payload; every storeInvoiceStatusUpdate run has its payload's event
\* emitted already; and the step that emits the event is the step that hands
\* the payload to storeInvoiceStatusUpdate: no run for the payload exists
\* before it, the run it starts has yet to get its lookup answered, and the
\* store is as it was.
C34_ForwardedToChannelClientFirst ==
    /\ [](\A i \in 1..Len(emitted) :
            emitted[i].event = "nem2pay_payment_status_update"
            => /\ emitted[i].to = FirstChannelClient(emitted[i].cause)
               /\ ForwardsOf(emitted[i].cause) = 1)
    /\ [](\A t \in 1..Len(tasks) : ForwardsOf(tasks[t].raw) = 1)
    /\ [][\A raw \in RawsBot :
            ForwardsOf(raw)' > ForwardsOf(raw)
            => /\ RunsOf(raw) = 0
               /\ Len(tasks') = Len(tasks) + 1
               /\ tasks'[Len(tasks')].raw = raw
               /\ tasks'[Len(tasks')].pc = "findOne"
               /\ db' = db]_vars

\* C34 case: with the channels of two clients open, a payload arrived on the
\* channel of the second client and went to that client alone, and its store
\* update has been saved
C34_Witness ==
    \E t \in 1..Len(tasks), i \in 1..Len(emitted) :
        /\ Len(channelSockets) = 2
        /\ channelSockets[1].clientId # channelSockets[2].clientId
        /\ delivered[1].channel = 2
        /\ tasks[t].raw = delivered[1].raw
        /\ tasks[t].pc \in {"saved", "successPath"}
        /\ emitted[i].event = "nem2pay_payment_status_update"
        /\ emitted[i].cause = delivered[1].raw
        /\ emitted[i].to = channelSockets[2].clientId
        /\ \A j \in 1..Len(emitted) :
              (emitted[j].event = "nem2pay_payment_status_update"
               /\ emitted[j].cause = delivered[1].raw) => j = i

\* C35: a status update whose payload carries neither a message nor a sender
\* finds no invoice: its run ends at the lookup, no stored invoice differs
\* from the invoice as created but for its channel sockets, and no
\* nem2pay_payment_success event is caused by it.
C35_EmptyKeyFindsNothing ==
    \A t \in 1..Len(tasks) :
        (tasks[t].data.message = "" /\ tasks[t].data.sender = "")
        => /\ tasks[t].pc \in {"findOne", "notFound"}
           /\ \A n \in Numbers :
                 [db[n] EXCEPT !.socketIds = <<>>] = NewInvoice(n)
           /\ \A i \in 1..Len(emitted) :
                 emitted[i].event = "nem2pay_payment_success"
                 => emitted[i].cause # tasks[t].raw

\* Has the save of every storeInvoiceStatusUpdate run for a raw payload
\* failed?
LostInStore(raw) ==
    /\ RunsOf(raw) > 0
    /\ \A t \in 1..Len(tasks) : tasks[t].raw = raw => tasks[t].pc = "saveError"

\* C36: when a raw payload whose update was lost in a failed save is
\* delivered again, the delivery starts a storeInvoiceStatusUpdate run for it
\* (whose save the store may then accept).
C36_RedeliveryAppliesLostUpdate ==
    [][\A raw \in RawsBot :
          (/\ LostInStore(raw)
           /\ DeliveriesOf(raw)' > DeliveriesOf(raw))
          => RunsOf(raw)' > RunsOf(raw)]_vars

====
